---- MODULE Spec2Model ----
(***************************************************************************)
(* Semantic retrieval pipeline of ScholarAssistant:                        *)
(*   Backend/app/services/semantic_retrieval_service.py                    *)
(*   Backend/app/services/embedding_service.py                             *)
(*   Backend/app/services/arxiv_service.py                                 *)
(*   Backend/app/services/semantic_scholar_service.py                      *)
(*                                                                         *)
(* Python values are modelled as follows.  A dict field holds a string;    *)
(* the two reserved strings Missing and None stand for an absent key and   *)
(* for Python's None.  A URL is the sequence of its "/"-separated parts    *)
(* (scheme, host, path segments), so that str.split("/")[-1] is the last   *)
(* element.  A list-valued field is a record [isList, names].  A vector    *)
(* is a sequence of integers; the local model yields SbertDim components   *)
(* and the remote model OpenAIDim components.                              *)
(***************************************************************************)
EXTENDS Integers, Sequences, FiniteSets, TLC

(***************************************************************************)
(* Bounds of the model.                                                    *)
(***************************************************************************)
MaxResults == 3
MaxTopK == 2
MaxEarlier == 1
MaxDedupLen == 3
MaxRankLen == 3
MaxCalls == 2

(***************************************************************************)
(* Python values.                                                          *)
(***************************************************************************)
Missing == "<missing>"
None == "<None>"

\* bool(v) of a str-or-None field value, as in `if paper_id:` / `a or b`
Truthy(v) == v \notin {Missing, None, ""}

\* dict.get(key, default): the default replaces an absent key only
Get(v, default) == IF v = Missing THEN default ELSE v

\* str(v) / f"{v}" of a str-or-None value
Str(v) == IF v = None THEN "None" ELSE v

MissingLink == <<Missing>>
NoneLink == <<None>>
EmptyLink == <<>>
TruthyLink(l) == l \notin {MissingLink, NoneLink, EmptyLink}
GetLink(l, default) == IF l = MissingLink THEN default ELSE l

PyList(names) == [isList |-> TRUE, names |-> names]
NotAList(tag) == [isList |-> FALSE, names |-> <<tag>>]

Min(a, b) == IF a <= b THEN a ELSE b
Max(a, b) == IF a >= b THEN a ELSE b

(***************************************************************************)
(* Paper dicts (the unified schema).  NoScore is the absent "score" key.   *)
(***************************************************************************)
NoScore == [sgn |-> 0, num |-> 0, den |-> 0]

Url(scheme, host, segs) == <<scheme, "", host>> \o segs

\* str.join("/", parts): the URL string, the argument of hash(link)
RECURSIVE Join(_)
Join(parts) ==
  IF parts = <<>> THEN ""
  ELSE IF Len(parts) = 1 THEN parts[1]
  ELSE parts[1] \o "/" \o Join(Tail(parts))

(***************************************************************************)
(* What the two external services can answer.  A provider call returns a   *)
(* subsequence of its feed, in feed order, of at most max_results entries. *)
(***************************************************************************)
ArxivFeed ==
  << [title |-> "Attention", authors |-> <<"Vaswani">>, summary |-> "transformers",
      entry_id |-> Url("http:", "arxiv.org", <<"abs", "1706.1">>), published |-> "2017-06-12"],
     [title |-> "Graphs", authors |-> <<>>, summary |-> "",
      entry_id |-> Url("http:", "arxiv.org", <<"abs", "1801.2">>), published |-> "2018-01-02"] >>

S2Feed ==
  << [paperId |-> "p1", title |-> None, abstract |-> None,
      url |-> Url("https:", "www.semanticscholar.org", <<"paper", "p1">>),
      authors |-> NotAList(None), year |-> None, venue |-> Missing,
      externalIds |-> Missing],
     [paperId |-> Missing, title |-> Missing, abstract |-> "",
      url |-> Url("http:", "arxiv.org", <<"abs", "1801.2">>),
      authors |-> NotAList(Missing), year |-> Missing, venue |-> "",
      externalIds |-> Missing],
     [paperId |-> "p2", title |-> "Diffusion", abstract |-> "images",
      url |-> Url("http:", "arxiv.org", <<"abs", "1706.1">>),
      authors |-> PyList(<<"Ho", "Jain">>), year |-> "2020", venue |-> "ICML",
      externalIds |-> Missing] >>

\* the entries of feed at the positions idx, in feed order
RECURSIVE Pick(_, _, _)
Pick(feed, idx, i) ==
  IF i > Len(feed) THEN <<>>
  ELSE (IF i \in idx THEN <<feed[i]>> ELSE <<>>) \o Pick(feed, idx, i + 1)

Answers(feed, max_results) ==
  { Pick(feed, idx, 1) : idx \in { s \in SUBSET (1..Len(feed)) : Cardinality(s) <= max_results } }

(***************************************************************************)
(* Source adapters.                                                        *)
(***************************************************************************)
\* arxiv_service.py: the dict built for one arxiv.Result (no defaults, no
\* paperId / venue / source keys)
ArxivPaper(r) ==
  [title |-> r.title, authors |-> PyList(r.authors), summary |-> r.summary,
   link |-> r.entry_id, published |-> r.published, venue |-> Missing,
   paperId |-> Missing, source |-> Missing, score |-> NoScore]

\* semantic_scholar_service.py: paper_dict built for one entry of data["data"]
S2Paper(p) ==
  LET authors == IF p.authors.isList /\ p.authors.names # <<>>
                 THEN PyList(p.authors.names) ELSE PyList(<<>>)
      url0 == GetLink(p.url, EmptyLink)
      paper_url == IF ~TruthyLink(url0) /\ Truthy(p.externalIds)
                   THEN Url("https:", "arxiv.org", <<"abs", p.externalIds>>)
                   ELSE url0
      published == IF Truthy(p.year) THEN Str(p.year) ELSE "Unknown"
      abstract == IF p.abstract \in {Missing, None, ""}
                  THEN "No abstract available" ELSE p.abstract
  IN [title |-> Get(p.title, "No title"),
      authors |-> authors,
      summary |-> Str(abstract),
      link |-> IF TruthyLink(paper_url) THEN paper_url
               ELSE Url("https:", "www.semanticscholar.org",
                        <<"paper", Str(Get(p.paperId, ""))>>),
      published |-> published,
      venue |-> Get(p.venue, ""),
      paperId |-> Get(p.paperId, ""),
      source |-> "semantic_scholar",
      score |-> NoScore]

MapSeq(Op(_), s) == [i \in 1..Len(s) |-> Op(s[i])]

\* what a completed search_arxiv call can return
search_arxiv(max_results) ==
  { MapSeq(ArxivPaper, a) : a \in Answers(ArxivFeed, max_results) }

\* what a completed search_semantic_scholar call can return; an HTTP or
\* network error is caught inside the adapter and yields the empty list,
\* which is also among the answers
search_semantic_scholar(max_results) ==
  { MapSeq(S2Paper, a) : a \in Answers(S2Feed, Min(max_results, 100)) }

(***************************************************************************)
(* State.                                                                  *)
(***************************************************************************)
VARIABLES
  \* the process (module state of embedding_service.py and the interpreter)
  SENTENCE_BERT_AVAILABLE, \* embedding_service.py: set once at import
  hashSeed,                \* the interpreter's string-hash salt
  cache,                   \* CACHE_DIR: cache key -> pickled entry
  earlier,                 \* get_or_compute_embedding calls of earlier requests
  \* one call of unified_semantic_search
  pc,                      \* "idle", "fetch", "collect", "embed_query",
                           \* "embed_papers", "rank", "done"
  query, top_k, use_sbert, use_arxiv, use_semantic_scholar,
  max_results_per_source,
  results,                 \* the provider tasks of gather, in dispatch order
  all_papers, unique_papers,
  query_embedding,
  paper_embeddings,        \* the embedding tasks of gather, in dispatch order
  outcome,                 \* "none", "returned", "raised"
  returned,                \* the list handed to the caller
  \* what the call has done so far (observation only)
  embed_calls,             \* calls of get_embedding (query and papers)
  cache_accesses,          \* reads and writes of CACHE_DIR
  rank_calls,              \* <<papers, embeddings>> of each rank_by_similarity call
  cache_errors,            \* the cache errors printed: "load" (Error loading
                           \* cached embedding), "cache" (Error caching embedding)
  backends_used,           \* <<request, backend>> of every backend invocation
                           \* of the process; request is "earlier" or "current"
  \* direct application of the deduplication step
  dd_pc, dd_in, dd_once, dd_twice,
  \* direct application of rank_by_similarity
  rk_pc, rk_query,
  rk_papers,               \* the list passed as papers (the caller's objects)
  rk_vecs, rk_top_k, rk_out,
  rk_scored,               \* compute_cosine_similarity calls that returned
  \* get_or_compute_embedding calls of processes that share CACHE_DIR
  rc_call,                 \* process -> its call: position, arguments, result
  rc_writes                \* the processes in the order their pickle.dump ended

procVars == <<SENTENCE_BERT_AVAILABLE, hashSeed, cache, earlier>>
paramVars == <<query, top_k, use_sbert, use_arxiv, use_semantic_scholar,
               max_results_per_source>>
callVars == <<pc, results, all_papers, unique_papers, query_embedding,
              paper_embeddings, outcome, returned>>
obsVars == <<embed_calls, cache_accesses, rank_calls, cache_errors, backends_used>>
ddVars == <<dd_pc, dd_in, dd_once, dd_twice>>
rkVars == <<rk_pc, rk_query, rk_papers, rk_vecs, rk_top_k, rk_out, rk_scored>>
raceVars == <<rc_call, rc_writes>>
vars == <<procVars, paramVars, callVars, obsVars, ddVars, rkVars, raceVars>>

(***************************************************************************)
(* hash(): salted per process for str, 0 for the empty string, a fixed     *)
(* value for None.  Distinct strings are taken to have distinct hashes.    *)
(***************************************************************************)
HashSeeds == {"s1"}

PyHash(v) ==
  IF v = "" THEN "0"
  ELSE IF v = None THEN "hNone"
  ELSE hashSeed \o "#" \o v

(***************************************************************************)
(* Deduplication (unified_semantic_search, "Deduplicate by link/paperId"). *)
(***************************************************************************)
\* mutant: the link is preferred to the paper_id
DedupKeyLinkFirst(paper) ==
  LET paper_id == Get(paper.paperId, "")
      link == GetLink(paper.link, EmptyLink)
  IN IF TruthyLink(link) THEN "link_" \o Join(link)
     ELSE IF Truthy(paper_id) THEN "id_" \o Str(paper_id)
     ELSE "title_" \o PyHash(Get(paper.title, ""))

\* the key computed for one paper in the loop body
DedupKey(paper) ==
  LET paper_id == Get(paper.paperId, "")
      link == GetLink(paper.link, EmptyLink)
  IN IF Truthy(paper_id) THEN "id_" \o Str(paper_id)
     ELSE IF TruthyLink(link) THEN "link_" \o Join(link)
     ELSE "title_" \o PyHash(Get(paper.title, ""))

\* mutant: a later paper replaces the kept paper with the same key
RECURSIVE DedupLoopLastWins(_, _, _, _)
DedupLoopLastWins(papers, i, seen, unique) ==
  IF i > Len(papers) THEN unique
  ELSE LET key == DedupKey(papers[i])
           others == SelectSeq(unique, LAMBDA u : DedupKey(u) # key)
       IN DedupLoopLastWins(papers, i + 1, seen \cup {key}, Append(others, papers[i]))

\* mutant: seen.add(key) is missing
RECURSIVE DedupLoopNoSeen(_, _, _, _)
DedupLoopNoSeen(papers, i, seen, unique) ==
  IF i > Len(papers) THEN unique
  ELSE LET key == DedupKey(papers[i])
       IN IF key \notin seen
          THEN DedupLoopNoSeen(papers, i + 1, seen, Append(unique, papers[i]))
          ELSE DedupLoopNoSeen(papers, i + 1, seen, unique)

\* mutant: seen is cleared whenever a duplicate is met
RECURSIVE DedupLoopForgets(_, _, _, _)
DedupLoopForgets(papers, i, seen, unique) ==
  IF i > Len(papers) THEN unique
  ELSE LET key == DedupKey(papers[i])
       IN IF key \notin seen
          THEN DedupLoopForgets(papers, i + 1, seen \cup {key}, Append(unique, papers[i]))
          ELSE DedupLoopForgets(papers, i + 1, {}, unique)

\* the loop: <<seen, unique_papers>> after the papers from position i on
RECURSIVE DedupLoop(_, _, _, _)
DedupLoop(papers, i, seen, unique) ==
  IF i > Len(papers) THEN unique
  ELSE LET key == DedupKey(papers[i])
       IN IF key \notin seen
          THEN DedupLoop(papers, i + 1, seen \cup {key}, Append(unique, papers[i]))
          ELSE DedupLoop(papers, i + 1, seen, unique)

Deduplicate(papers) == DedupLoop(papers, 1, {}, <<>>)

(***************************************************************************)
(* Embedding provider (embedding_service.py).                              *)
(***************************************************************************)
\* all-MiniLM-L6-v2: model.encode(text).tolist()
get_embedding_sbert(text) ==
  CASE text = "transformers" -> <<1, 0>>
    [] text = "images" -> <<1, 1>>
    [] text = "Graphs" -> <<0, 1>>
    [] text = "Attention" -> <<-1, 1>>
    [] text = "No abstract available" -> <<-1, 0>>
    [] text = "" -> <<0, 0>>
    [] OTHER -> <<1, 0>>

\* text-embedding-3-large: resp.data[0].embedding (another dimension)
get_embedding_openai(text) ==
  CASE text = "transformers" -> <<1, 0, 0>>
    [] text = "images" -> <<1, 0, 1>>
    [] text = "Graphs" -> <<0, 1, 0>>
    [] text = "Attention" -> <<0, 1, 1>>
    [] text = "No abstract available" -> <<0, 0, 1>>
    [] text = "" -> <<0, 0, 0>>
    [] OTHER -> <<1, 0, 0>>

\* mutant: only the flag of the process decides, use_sbert is ignored
BackendIgnoresFlag(sbert) == IF SENTENCE_BERT_AVAILABLE THEN "sbert" ELSE "openai"

\* get_embedding: which backend serves a call
Backend(sbert) == IF sbert /\ SENTENCE_BERT_AVAILABLE THEN "sbert" ELSE "openai"

\* get_embedding, when the backend call does not raise
get_embedding(text, sbert) ==
  IF Backend(sbert) = "sbert" THEN get_embedding_sbert(text)
  ELSE get_embedding_openai(text)

\* mutant: the title is preferred to the summary
EmbeddingTextTitleFirst(paper) ==
  LET text == Get(paper.title, "")
  IN IF Truthy(text) THEN text ELSE Get(paper.summary, "")

\* get_or_compute_embedding: the text that is embedded on a miss
EmbeddingText(paper) ==
  LET text == Get(paper.summary, "")
  IN IF Truthy(text) THEN text ELSE Get(paper.title, "")

Last(s) == s[Len(s)]

\* mutant: the link is tested before the paperId
CacheKeyLinkFirst(paper) ==
  IF paper.link # MissingLink /\ TruthyLink(paper.link)
  THEN IF \E i \in 1..Len(paper.link) : paper.link[i] = "arxiv.org"
       THEN "arxiv_" \o Last(paper.link)
       ELSE "link_" \o PyHash(Join(paper.link))
  ELSE IF paper.paperId # Missing /\ Truthy(paper.paperId)
  THEN "paper_" \o Str(paper.paperId)
  ELSE "title_" \o PyHash(Get(paper.title, ""))

\* get_paper_cache_key
get_paper_cache_key(paper) ==
  IF paper.paperId # Missing /\ Truthy(paper.paperId)
  THEN "paper_" \o Str(paper.paperId)
  ELSE IF paper.link # MissingLink /\ TruthyLink(paper.link)
  THEN IF \E i \in 1..Len(paper.link) : paper.link[i] = "arxiv.org"
       THEN "arxiv_" \o Last(paper.link)
       ELSE "link_" \o PyHash(Join(paper.link))
  ELSE "title_" \o PyHash(Get(paper.title, ""))

\* cache_embedding: the pickled cache_data
CacheData(paper, embedding) ==
  [embedding |-> embedding,
   paper |-> [title |-> Get(paper.title, ""),
              link |-> GetLink(paper.link, EmptyLink),
              paperId |-> Get(paper.paperId, "")]]

\* mutant: the entry is never written
CacheEmbeddingNoWrite(dir, paper, embedding) == dir

\* cache_embedding, when the write succeeds: the directory afterwards
cache_embedding(dir, paper, embedding) ==
  LET key == get_paper_cache_key(paper)
  IN [k \in DOMAIN dir \cup {key} |->
        IF k = key THEN CacheData(paper, embedding) ELSE dir[k]]

\* get_cached_embedding, when the read succeeds: is there an entry
CacheHit(dir, paper) == get_paper_cache_key(paper) \in DOMAIN dir

get_cached_embedding(dir, paper) == dir[get_paper_cache_key(paper)].embedding

(***************************************************************************)
(* Similarity ranker (embedding_service.py).  A score is the real number   *)
(* sgn * sqrt(num / den), num/den in lowest terms; NoScore (den = 0) is    *)
(* the absent key.                                                         *)
(***************************************************************************)
RECURSIVE Gcd(_, _)
Gcd(a, b) == IF b = 0 THEN a ELSE Gcd(b, a % b)

RECURSIVE DotFrom(_, _, _)
DotFrom(a, b, i) == IF i > Len(a) THEN 0 ELSE a[i] * b[i] + DotFrom(a, b, i + 1)
Dot(a, b) == DotFrom(a, b, 1)

Sign(n) == IF n > 0 THEN 1 ELSE IF n < 0 THEN -1 ELSE 0

ZeroScore == [sgn |-> 0, num |-> 0, den |-> 1]

\* np.dot raises ValueError on vectors of different shapes
CosineRaises(embedding1, embedding2) == Len(embedding1) # Len(embedding2)

\* float('nan'): what a float division 0.0 / 0.0 of numpy yields
NaN == [sgn |-> 0, num |-> 1, den |-> 0]

\* mutant: the zero-norm test is missing
CosineNoZeroCheck(embedding1, embedding2) ==
  LET dot_product == Dot(embedding1, embedding2)
      sq1 == Dot(embedding1, embedding1)
      sq2 == Dot(embedding2, embedding2)
  IN IF sq1 = 0 \/ sq2 = 0 THEN NaN
     ELSE IF dot_product = 0 THEN ZeroScore
     ELSE LET n == dot_product * dot_product
              d == sq1 * sq2
              g == Gcd(n, d)
          IN [sgn |-> Sign(dot_product), num |-> n \div g, den |-> d \div g]

\* compute_cosine_similarity, when np.dot does not raise
compute_cosine_similarity(embedding1, embedding2) ==
  LET dot_product == Dot(embedding1, embedding2)
      sq1 == Dot(embedding1, embedding1)
      sq2 == Dot(embedding2, embedding2)
  IN IF sq1 = 0 \/ sq2 = 0 THEN ZeroScore
     ELSE IF dot_product = 0 THEN ZeroScore
     ELSE LET n == dot_product * dot_product
              d == sq1 * sq2
              g == Gcd(n, d)
          IN [sgn |-> Sign(dot_product), num |-> n \div g, den |-> d \div g]

\* s < t as real numbers
ScoreLess(s, t) ==
  IF s.sgn # t.sgn THEN s.sgn < t.sgn
  ELSE IF s.sgn = 0 THEN FALSE
  ELSE IF s.sgn = 1 THEN s.num * t.den < t.num * s.den
  ELSE s.num * t.den > t.num * s.den

\* mutant: sorted(..., key=score)[::-1], which reverses the order of ties
RECURSIVE InsertDescTiesReversed(_, _)
InsertDescTiesReversed(sorted, x) ==
  IF sorted = <<>> THEN <<x>>
  ELSE IF ~ScoreLess(x.score, Head(sorted).score) THEN <<x>> \o sorted
  ELSE <<Head(sorted)>> \o InsertDescTiesReversed(Tail(sorted), x)

\* sorted(..., key=score, reverse=True): stable, an element goes after the
\* elements already placed whose score is not smaller
RECURSIVE InsertDesc(_, _)
InsertDesc(sorted, x) ==
  IF sorted = <<>> THEN <<x>>
  ELSE IF ScoreLess(Head(sorted).score, x.score) THEN <<x>> \o sorted
  ELSE <<Head(sorted)>> \o InsertDesc(Tail(sorted), x)

RECURSIVE SortedFrom(_, _, _)
SortedFrom(items, i, acc) ==
  IF i > Len(items) THEN acc
  ELSE SortedFrom(items, i + 1, InsertDesc(acc, items[i]))

SortedDesc(items) == SortedFrom(items, 1, <<>>)

\* mutant: ranked[:top_k + 1]
SliceOneMore(s, k) ==
  IF k + 1 >= 0 THEN SubSeq(s, 1, Min(k + 1, Len(s)))
  ELSE SubSeq(s, 1, Max(0, Len(s) + k + 1))

\* ranked[:top_k]
Slice(s, k) ==
  IF k >= 0 THEN SubSeq(s, 1, Min(k, Len(s)))
  ELSE SubSeq(s, 1, Max(0, Len(s) + k))

\* mutant: the length check is missing (zip stops at the shorter list)
RankRaisesNoLengthCheck(q, papers, embeddings) ==
  \E i \in 1..Min(Len(papers), Len(embeddings)) : CosineRaises(q, embeddings[i])

\* rank_by_similarity raises: the length check, or np.dot inside the loop
RankRaises(q, papers, embeddings) ==
  \/ Len(papers) # Len(embeddings)
  \/ \E i \in 1..Min(Len(papers), Len(embeddings)) : CosineRaises(q, embeddings[i])

\* the number of papers scored when rank_by_similarity raises: none when
\* the length check fails, else those before the first np.dot that raises
ScoredBeforeRaise(q, papers, embeddings) ==
  IF Len(papers) # Len(embeddings) THEN 0
  ELSE Cardinality({ i \in 1..Len(embeddings) :
                      \A j \in 1..i : ~CosineRaises(q, embeddings[j]) })

\* the copies with "score" set, one per pair of zip(papers, paper_embeddings)
ScoredPapers(q, papers, embeddings) ==
  [i \in 1..Min(Len(papers), Len(embeddings)) |->
     [papers[i] EXCEPT !.score = compute_cosine_similarity(q, embeddings[i])]]

\* mutant: paper["score"] is set on the input dict, without paper.copy()
PapersAfterRankInPlace(q, papers, embeddings) ==
  [i \in 1..Len(papers) |->
     IF i <= Len(embeddings)
     THEN [papers[i] EXCEPT !.score = compute_cosine_similarity(q, embeddings[i])]
     ELSE papers[i]]

\* the caller's papers list after rank_by_similarity returned: the loop
\* writes "score" to paper.copy(), the originals are left as they were
PapersAfterRank(q, papers, embeddings) == papers

\* rank_by_similarity, when it does not raise
rank_by_similarity(q, papers, embeddings, k) ==
  Slice(SortedDesc(ScoredPapers(q, papers, embeddings)), k)

(***************************************************************************)
(* unified_semantic_search: pure parts.                                    *)
(***************************************************************************)
\* "Combine results": the lists of the tasks that returned, in task order
RECURSIVE Combine(_, _)
Combine(rs, i) ==
  IF i > Len(rs) THEN <<>>
  ELSE (IF rs[i].status = "list" THEN rs[i].papers ELSE <<>>) \o Combine(rs, i + 1)

\* mutant: break instead of continue on a failed embedding
RECURSIVE ValidPairsBreak(_, _, _)
ValidPairsBreak(papers, embs, i) ==
  IF i > Len(papers) \/ i > Len(embs) THEN <<>>
  ELSE IF embs[i].status = "exception" THEN <<>>
  ELSE << <<papers[i], embs[i].vec>> >> \o ValidPairsBreak(papers, embs, i + 1)

\* mutant: no isinstance(embedding, Exception) test, every paper is paired
RECURSIVE ValidPairsNoFilter(_, _, _)
ValidPairsNoFilter(papers, embs, i) ==
  IF i > Len(papers) \/ i > Len(embs) THEN <<>>
  ELSE << <<papers[i], embs[i].vec>> >> \o ValidPairsNoFilter(papers, embs, i + 1)

\* "Filter out errors and match papers with embeddings": valid_pairs
RECURSIVE ValidPairs(_, _, _)
ValidPairs(papers, embs, i) ==
  IF i > Len(papers) \/ i > Len(embs) THEN <<>>
  ELSE (IF embs[i].status = "exception" THEN <<>>
        ELSE << <<papers[i], embs[i].vec>> >>) \o ValidPairs(papers, embs, i + 1)

\* mutant: the title default is missing from the safety check
NormaliseSummaryOnly(paper) ==
  [paper EXCEPT
     !.summary = IF paper.summary \in {Missing, None} THEN "No abstract available"
                 ELSE paper.summary,
     !.authors = IF ~paper.authors.isList THEN PyList(<<>>) ELSE paper.authors]

\* "Ensure all papers have valid summary strings (safety check)"
Normalise(paper) ==
  [paper EXCEPT
     !.summary = IF paper.summary \in {Missing, None} THEN "No abstract available"
                 ELSE paper.summary,
     !.title = IF paper.title \in {Missing, None} THEN "No title" ELSE paper.title,
     !.authors = IF ~paper.authors.isList THEN PyList(<<>>) ELSE paper.authors]

(***************************************************************************)
(* Inputs of a call.                                                       *)
(***************************************************************************)
Queries == {"attention models"}
TopKs == (-1)..MaxTopK

Task(provider) == [provider |-> provider, status |-> "pending", papers |-> <<>>]
PendingEmbedding == [status |-> "pending", vec |-> <<>>]
EmptyDir == [k \in {} |-> 0]

(***************************************************************************)
(* Initial state: the module has been imported (the local model loaded or  *)
(* not), nothing is cached, no call is running.                            *)
(***************************************************************************)
CallIdle ==
  /\ pc = "idle"
  /\ query = "" /\ top_k = 0 /\ use_sbert = TRUE
  /\ use_arxiv = TRUE /\ use_semantic_scholar = TRUE
  /\ max_results_per_source = 0
  /\ results = <<>> /\ all_papers = <<>> /\ unique_papers = <<>>
  /\ query_embedding = <<>> /\ paper_embeddings = <<>>
  /\ outcome = "none" /\ returned = <<>>
  /\ embed_calls = 0 /\ cache_accesses = 0 /\ rank_calls = <<>>
  /\ cache_errors = <<>> /\ backends_used = {}

ProcInit ==
  /\ SENTENCE_BERT_AVAILABLE \in BOOLEAN
  /\ hashSeed \in HashSeeds
  /\ cache = EmptyDir
  /\ earlier = 0

DedupIdle == dd_pc = "off" /\ dd_in = <<>> /\ dd_once = <<>> /\ dd_twice = <<>>
RankIdle ==
  /\ rk_pc = "off" /\ rk_query = <<>> /\ rk_papers = <<>> /\ rk_vecs = <<>>
  /\ rk_top_k = 0 /\ rk_out = <<>> /\ rk_scored = 0

RaceIdle == rc_call = <<>> /\ rc_writes = <<>>

Init == ProcInit /\ CallIdle /\ DedupIdle /\ RankIdle /\ RaceIdle

(***************************************************************************)
(* unified_semantic_search, step by step.                                  *)
(***************************************************************************)
\* the papers the adapters can hand out
KnownPapers ==
  { ArxivPaper(ArxivFeed[i]) : i \in 1..Len(ArxivFeed) }
    \cup { S2Paper(S2Feed[i]) : i \in 1..Len(S2Feed) }

\* before the call: an earlier request (of this or of another route; the
\* pipeline and citation routes call get_or_compute_embedding themselves)
\* has embedded a paper and left the entry in CACHE_DIR
EarlierEmbedding ==
  /\ pc = "idle"
  /\ earlier < MaxEarlier
  /\ \E paper \in KnownPapers, sbert \in BOOLEAN :
       /\ ~CacheHit(cache, paper)
       /\ cache' = cache_embedding(cache, paper,
                     get_embedding(EmbeddingText(paper), sbert))
       /\ backends_used' = backends_used \cup {<<"earlier", Backend(sbert)>>}
  /\ earlier' = earlier + 1
  /\ UNCHANGED <<SENTENCE_BERT_AVAILABLE, hashSeed, paramVars, callVars,
                 embed_calls, cache_accesses, rank_calls, cache_errors,
                 ddVars, rkVars, raceVars>>

\* the call is made: the provider coroutines are created and gathered
StartRequest(q, k, sbert, arxiv, s2) ==
  /\ pc = "idle"
  /\ query' = q /\ top_k' = k /\ use_sbert' = sbert
  /\ use_arxiv' = arxiv /\ use_semantic_scholar' = s2
  /\ max_results_per_source' = MaxResults
  /\ results' = (IF arxiv THEN <<Task("arxiv")>> ELSE <<>>)
                \o (IF s2 THEN <<Task("semantic_scholar")>> ELSE <<>>)
  /\ all_papers' = <<>> /\ unique_papers' = <<>>
  /\ query_embedding' = <<>> /\ paper_embeddings' = <<>>
  /\ outcome' = "none" /\ returned' = <<>>
  /\ embed_calls' = 0 /\ cache_accesses' = 0 /\ rank_calls' = <<>>
  /\ cache_errors' = <<>>
  /\ pc' = "fetch"
  /\ UNCHANGED <<procVars, backends_used, ddVars, rkVars, raceVars>>

\* mutant: the results are collected in completion order (as_completed), the
\* task that finishes first fills the first free position
SettleAsCompleted(i, status, papers) ==
  /\ LET j == CHOOSE j \in 1..Len(results) :
                /\ results[j].status = "pending"
                /\ \A k \in 1..(j - 1) : results[k].status # "pending"
         done == [provider |-> results[i].provider, status |-> status, papers |-> papers]
     IN results' = [k \in 1..Len(results) |->
                      IF k = j THEN done ELSE IF k = i THEN results[j] ELSE results[k]]
  /\ UNCHANGED <<procVars, paramVars, pc, all_papers, unique_papers,
                 query_embedding, paper_embeddings, outcome, returned,
                 obsVars, ddVars, rkVars, raceVars>>

\* gather(return_exceptions=True): a task's result or exception is stored
\* at the task's position
Settle(i, status, papers) ==
  /\ results' = [results EXCEPT ![i].status = status, ![i].papers = papers]
  /\ UNCHANGED <<procVars, paramVars, pc, all_papers, unique_papers,
                 query_embedding, paper_embeddings, outcome, returned,
                 obsVars, ddVars, rkVars, raceVars>>

Pending(provider) ==
  { i \in 1..Len(results) :
      results[i].provider = provider /\ results[i].status = "pending" }

\* search_arxiv returns its list
ArxivReturns ==
  /\ pc = "fetch"
  /\ \E i \in Pending("arxiv") :
       \E papers \in search_arxiv(max_results_per_source) :
         Settle(i, "list", papers)

\* search_arxiv has no handler: an error of the arxiv client propagates
ArxivRaises ==
  /\ pc = "fetch"
  /\ \E i \in Pending("arxiv") : Settle(i, "exception", <<>>)

\* search_semantic_scholar returns its list ([] after a caught error)
SemanticScholarReturns ==
  /\ pc = "fetch"
  /\ \E i \in Pending("semantic_scholar") :
       \E papers \in search_semantic_scholar(max_results_per_source) :
         Settle(i, "list", papers)

\* mutant: the `if not all_papers: return []` short-circuit is missing
CollectNoShortCircuit ==
  /\ pc = "fetch"
  /\ \A i \in 1..Len(results) : results[i].status # "pending"
  /\ all_papers' = Combine(results, 1)
  /\ unique_papers' = Deduplicate(all_papers')
  /\ pc' = "embed_query"
  /\ UNCHANGED <<procVars, paramVars, results, query_embedding,
                 paper_embeddings, outcome, returned, obsVars, ddVars, rkVars, raceVars>>

\* mutant: the orchestrator goes on as soon as one provider task is over
\* (wait with FIRST_COMPLETED instead of gather)
CollectFirstCompleted ==
  /\ pc = "fetch"
  /\ \E i \in 1..Len(results) : results[i].status # "pending"
  /\ all_papers' = Combine(results, 1)
  /\ IF all_papers' = <<>>
     THEN /\ pc' = "done" /\ outcome' = "returned" /\ returned' = <<>>
          /\ UNCHANGED unique_papers
     ELSE /\ unique_papers' = Deduplicate(all_papers')
          /\ pc' = "embed_query"
          /\ UNCHANGED <<outcome, returned>>
  /\ UNCHANGED <<procVars, paramVars, results, query_embedding,
                 paper_embeddings, obsVars, ddVars, rkVars, raceVars>>

\* gather is over: combine, short-circuit on no candidate, deduplicate
Collect ==
  /\ pc = "fetch"
  /\ \A i \in 1..Len(results) : results[i].status # "pending"
  /\ all_papers' = Combine(results, 1)
  /\ IF all_papers' = <<>>
     THEN /\ pc' = "done" /\ outcome' = "returned" /\ returned' = <<>>
          /\ UNCHANGED unique_papers
     ELSE /\ unique_papers' = Deduplicate(all_papers')
          /\ pc' = "embed_query"
          /\ UNCHANGED <<outcome, returned>>
  /\ UNCHANGED <<procVars, paramVars, results, query_embedding,
                 paper_embeddings, obsVars, ddVars, rkVars, raceVars>>

\* query_embedding = await get_embedding(query): the backend answers, and
\* the embedding coroutines of the papers are created and gathered
EmbedQueryReturns ==
  /\ pc = "embed_query"
  /\ query_embedding' = get_embedding(query, use_sbert)
  /\ embed_calls' = embed_calls + 1
  /\ backends_used' = backends_used \cup {<<"current", Backend(use_sbert)>>}
  /\ paper_embeddings' = [i \in 1..Len(unique_papers) |-> PendingEmbedding]
  /\ pc' = "embed_papers"
  /\ UNCHANGED <<procVars, paramVars, results, all_papers, unique_papers,
                 outcome, returned, cache_accesses, rank_calls, cache_errors,
                 ddVars, rkVars, raceVars>>

\* the backend raises: nothing catches it in unified_semantic_search
EmbedQueryRaises ==
  /\ pc = "embed_query"
  /\ embed_calls' = embed_calls + 1
  /\ backends_used' = backends_used \cup {<<"current", Backend(use_sbert)>>}
  /\ outcome' = "raised"
  /\ pc' = "done"
  /\ UNCHANGED <<procVars, paramVars, results, all_papers, unique_papers,
                 query_embedding, paper_embeddings, returned, cache_accesses,
                 rank_calls, cache_errors, ddVars, rkVars, raceVars>>

\* the embedding task that runs next: the tasks never suspend, so the event
\* loop runs them to completion one after the other in dispatch order
NextEmbedding(i) ==
  /\ pc = "embed_papers"
  /\ i \in 1..Len(paper_embeddings)
  /\ paper_embeddings[i].status = "pending"
  /\ \A j \in 1..(i - 1) : paper_embeddings[j].status # "pending"

EmbeddingFrame ==
  UNCHANGED <<SENTENCE_BERT_AVAILABLE, hashSeed, earlier, paramVars, pc,
              results, all_papers, unique_papers, query_embedding, outcome,
              returned, rank_calls, ddVars, rkVars, raceVars>>

\* get_or_compute_embedding: the entry is read, no backend call, no write
GetOrComputeHit(i) ==
  /\ NextEmbedding(i)
  /\ CacheHit(cache, unique_papers[i])
  /\ paper_embeddings' =
       [paper_embeddings EXCEPT
          ![i] = [status |-> "ok", vec |-> get_cached_embedding(cache, unique_papers[i])]]
  /\ cache_accesses' = cache_accesses + 1
  /\ UNCHANGED <<cache, embed_calls, cache_errors, backends_used>>
  /\ EmbeddingFrame

\* mutant: get_cached_embedding has no try/except, a failed read ends the
\* call with the I/O error
GetOrComputeMissReadPropagates(i, readFails, writeFails) ==
  /\ NextEmbedding(i)
  /\ readFails => CacheHit(cache, unique_papers[i])
  /\ ~readFails => ~CacheHit(cache, unique_papers[i])
  /\ LET embedding == get_embedding(EmbeddingText(unique_papers[i]), use_sbert)
     IN IF readFails
        THEN /\ paper_embeddings' =
                  [paper_embeddings EXCEPT ![i] = [status |-> "exception", vec |-> <<>>]]
             /\ cache_accesses' = cache_accesses + 1
             /\ cache_errors' = Append(cache_errors, "load")
             /\ UNCHANGED <<cache, embed_calls, backends_used>>
        ELSE /\ paper_embeddings' =
                  [paper_embeddings EXCEPT ![i] = [status |-> "ok", vec |-> embedding]]
             /\ cache' = IF writeFails THEN cache
                         ELSE cache_embedding(cache, unique_papers[i], embedding)
             /\ embed_calls' = embed_calls + 1
             /\ backends_used' = backends_used \cup {<<"current", Backend(use_sbert)>>}
             /\ cache_accesses' = cache_accesses + 2
             /\ cache_errors' = cache_errors \o (IF writeFails THEN <<"cache">> ELSE <<>>)
  /\ EmbeddingFrame

\* get_or_compute_embedding: no entry (or the read fails, readFails), the
\* backend answers, the entry is written (or the write fails, writeFails)
GetOrComputeMiss(i, readFails, writeFails) ==
  /\ NextEmbedding(i)
  /\ readFails => CacheHit(cache, unique_papers[i])
  /\ ~readFails => ~CacheHit(cache, unique_papers[i])
  /\ LET embedding == get_embedding(EmbeddingText(unique_papers[i]), use_sbert)
     IN /\ paper_embeddings' =
             [paper_embeddings EXCEPT ![i] = [status |-> "ok", vec |-> embedding]]
        /\ cache' = IF writeFails THEN cache
                    ELSE cache_embedding(cache, unique_papers[i], embedding)
  /\ embed_calls' = embed_calls + 1
  /\ backends_used' = backends_used \cup {<<"current", Backend(use_sbert)>>}
  /\ cache_accesses' = cache_accesses + 2
  /\ cache_errors' = cache_errors \o (IF readFails THEN <<"load">> ELSE <<>>)
                                   \o (IF writeFails THEN <<"cache">> ELSE <<>>)
  /\ EmbeddingFrame

\* get_or_compute_embedding: a miss, and the backend raises; gather stores
\* the exception at the task's position
GetOrComputeRaises(i, readFails) ==
  /\ NextEmbedding(i)
  /\ readFails => CacheHit(cache, unique_papers[i])
  /\ ~readFails => ~CacheHit(cache, unique_papers[i])
  /\ paper_embeddings' =
       [paper_embeddings EXCEPT ![i] = [status |-> "exception", vec |-> <<>>]]
  /\ embed_calls' = embed_calls + 1
  /\ backends_used' = backends_used \cup {<<"current", Backend(use_sbert)>>}
  /\ cache_accesses' = cache_accesses + 1
  /\ cache_errors' = cache_errors \o (IF readFails THEN <<"load">> ELSE <<>>)
  /\ UNCHANGED cache
  /\ EmbeddingFrame

\* gather is over: filter, short-circuit on no pair, rank, normalise, return
RankAndReturn ==
  /\ pc = "embed_papers"
  /\ \A i \in 1..Len(paper_embeddings) : paper_embeddings[i].status # "pending"
  /\ LET valid_pairs == ValidPairs(unique_papers, paper_embeddings, 1)
         papers == [i \in 1..Len(valid_pairs) |-> valid_pairs[i][1]]
         embeddings == [i \in 1..Len(valid_pairs) |-> valid_pairs[i][2]]
     IN IF valid_pairs = <<>>
        THEN /\ outcome' = "returned" /\ returned' = <<>>
             /\ UNCHANGED rank_calls
        ELSE /\ rank_calls' = Append(rank_calls, [papers |-> papers, embeddings |-> embeddings])
             /\ IF RankRaises(query_embedding, papers, embeddings)
                THEN outcome' = "raised" /\ UNCHANGED returned
                ELSE /\ outcome' = "returned"
                     /\ returned' = MapSeq(Normalise,
                          rank_by_similarity(query_embedding, papers, embeddings, top_k))
  /\ pc' = "done"
  /\ UNCHANGED <<procVars, paramVars, results, all_papers, unique_papers,
                 query_embedding, paper_embeddings, embed_calls,
                 cache_accesses, cache_errors, backends_used, ddVars, rkVars, raceVars>>

Next ==
  \/ EarlierEmbedding
  \/ \E q \in Queries, k \in TopKs, sbert \in BOOLEAN, arxiv \in BOOLEAN, s2 \in BOOLEAN :
       StartRequest(q, k, sbert, arxiv, s2)
  \/ ArxivReturns
  \/ ArxivRaises
  \/ SemanticScholarReturns
  \/ Collect
  \/ EmbedQueryReturns
  \/ EmbedQueryRaises
  \/ \E i \in 1..Len(paper_embeddings) : GetOrComputeHit(i)
  \/ \E i \in 1..Len(paper_embeddings) : \E readFails \in BOOLEAN, writeFails \in BOOLEAN :
       GetOrComputeMiss(i, readFails, writeFails)
  \/ \E i \in 1..Len(paper_embeddings) : \E readFails \in BOOLEAN :
       GetOrComputeRaises(i, readFails)
  \/ RankAndReturn

Spec == Init /\ [][Next]_vars


(***************************************************************************)
(* The deduplication step applied on its own, once and then to its own     *)
(* output, to candidate sequences over every shape of the identity fields. *)
(***************************************************************************)
DedupIds == {Missing, "", "p1"}
DedupLinks == {EmptyLink,
               Url("http:", "arxiv.org", <<"abs", "1706.1">>),
               Url("https:", "www.semanticscholar.org", <<"paper", "p1">>)}
DedupTitles == {Missing, "Attention"}

Candidate(id, link, title) ==
  [title |-> title, authors |-> PyList(<<>>), summary |-> "transformers",
   link |-> link, published |-> "Unknown", venue |-> Missing, paperId |-> id,
   source |-> IF id = Missing THEN Missing ELSE "semantic_scholar",
   score |-> NoScore]

Candidates ==
  { Candidate(id, link, title) : id \in DedupIds, link \in DedupLinks, title \in DedupTitles }

SeqsUpTo(S, n) == UNION { [1..m -> S] : m \in 0..n }

InitDedup ==
  /\ ProcInit /\ CallIdle /\ RankIdle /\ RaceIdle
  /\ dd_pc = "start"
  /\ dd_in \in SeqsUpTo(Candidates, MaxDedupLen)
  /\ dd_once = <<>> /\ dd_twice = <<>>

DedupOnce ==
  /\ dd_pc = "start"
  /\ dd_once' = Deduplicate(dd_in)
  /\ dd_pc' = "once"
  /\ UNCHANGED <<procVars, paramVars, callVars, obsVars, dd_in, dd_twice, rkVars, raceVars>>

DedupTwice ==
  /\ dd_pc = "once"
  /\ dd_twice' = Deduplicate(dd_once)
  /\ dd_pc' = "twice"
  /\ UNCHANGED <<procVars, paramVars, callVars, obsVars, dd_in, dd_once, rkVars, raceVars>>

NextDedup == DedupOnce \/ DedupTwice

SpecDedup == InitDedup /\ [][NextDedup]_vars

(***************************************************************************)
(* rank_by_similarity applied on its own.                                  *)
(***************************************************************************)
RankVecs == {<<1, 0>>, <<0, 1>>, <<1, 1>>, <<-1, 0>>, <<0, 0>>}
RankQueries == {<<1, 0>>, <<0, 1>>, <<0, 0>>, <<1, 0, 0>>}
RankTopKs == ((-2)..(MaxRankLen + 1)) \cup {10}

RankPaper(i) ==
  Candidate(Missing, Url("http:", "arxiv.org", <<"abs", ToString(i)>>), "Attention")

InitRank ==
  /\ ProcInit /\ CallIdle /\ DedupIdle /\ RaceIdle
  /\ rk_pc = "start"
  /\ rk_query \in RankQueries
  /\ rk_papers \in { [i \in 1..n |-> RankPaper(i)] : n \in 0..MaxRankLen }
  /\ rk_vecs \in SeqsUpTo(RankVecs, MaxRankLen)
  /\ rk_top_k \in RankTopKs
  /\ rk_out = <<>> /\ rk_scored = 0

RankReturns ==
  /\ rk_pc = "start"
  /\ ~RankRaises(rk_query, rk_papers, rk_vecs)
  /\ rk_out' = rank_by_similarity(rk_query, rk_papers, rk_vecs, rk_top_k)
  /\ rk_papers' = PapersAfterRank(rk_query, rk_papers, rk_vecs)
  /\ rk_scored' = Min(Len(rk_papers), Len(rk_vecs))
  /\ rk_pc' = "returned"
  /\ UNCHANGED <<procVars, paramVars, callVars, obsVars, ddVars,
                 rk_query, rk_vecs, rk_top_k, raceVars>>

RankFails ==
  /\ rk_pc = "start"
  /\ RankRaises(rk_query, rk_papers, rk_vecs)
  /\ rk_scored' = ScoredBeforeRaise(rk_query, rk_papers, rk_vecs)
  /\ rk_pc' = "raised"
  /\ UNCHANGED <<procVars, paramVars, callVars, obsVars, ddVars,
                 rk_query, rk_papers, rk_vecs, rk_top_k, rk_out, raceVars>>

NextRank == RankReturns \/ RankFails

SpecRank == InitRank /\ [][NextRank]_vars


(***************************************************************************)
(* Properties.                                                             *)
(***************************************************************************)
Done == pc = "done"
Raised(provider) ==
  \E i \in 1..Len(results) : results[i].provider = provider /\ results[i].status = "exception"
Listed(provider, n) ==
  \E i \in 1..Len(results) :
    /\ results[i].provider = provider /\ results[i].status = "list"
    /\ Len(results[i].papers) = n
OkIndices == { i \in 1..Len(paper_embeddings) : paper_embeddings[i].status = "ok" }
\* a paper as the providers delivered it: without the ranker's score and
\* the final defaults
Identity(paper) == <<paper.link, paper.paperId>>
Identities(papers) == { Identity(papers[i]) : i \in 1..Len(papers) }

\* C1: with both providers enabled, when one provider call raises and the
\* other returns a list, the call does not raise and the result is built
\* from the other provider's papers only; when that list holds 3 distinct
\* papers whose embeddings all succeed, exactly min(top_k, 3) papers are
\* returned.
C1_PartialFailureTolerated ==
  (Done /\ use_arxiv /\ use_semantic_scholar /\ Raised("arxiv")
        /\ \E n \in 0..MaxResults : Listed("semantic_scholar", n))
    => /\ outcome = "returned"
       /\ \A i \in 1..Len(results) :
            results[i].provider = "semantic_scholar" => all_papers = results[i].papers
       /\ Identities(returned) \subseteq Identities(all_papers)
       /\ (Listed("semantic_scholar", 3) /\ Len(unique_papers) = 3
             /\ OkIndices = 1..3)
            => Len(returned) = Min(top_k, 3)

\* C2: whatever succeeds or fails (provider calls, the query embedding,
\* the paper embeddings), the call ends by returning a list, never by
\* raising.
C2_NeverRaises == Done => outcome = "returned"

\* C3: a failed paper embedding excludes exactly that paper: the ranker is
\* given the deduplicated candidates whose embedding succeeded, each with
\* its own vector, in order; a returned result is the best top_k of them;
\* and when every paper embedding failed the result is empty and the ranker
\* is not invoked.
C3_FailedEmbeddingExcluded ==
  (Done /\ paper_embeddings # <<>>) =>
    LET ok == OkIndices
        kept == Pick(unique_papers, ok, 1)
        vecs == Pick([i \in 1..Len(paper_embeddings) |-> paper_embeddings[i].vec], ok, 1)
        ScoreOf(id) ==
          LET i == CHOOSE i \in ok : Identity(unique_papers[i]) = id
          IN compute_cosine_similarity(query_embedding, paper_embeddings[i].vec)
    IN /\ ok = {} => (outcome = "returned" /\ returned = <<>> /\ rank_calls = <<>>)
       /\ ok # {} => rank_calls = << [papers |-> kept, embeddings |-> vecs] >>
       /\ (ok # {} /\ outcome = "returned") =>
            /\ Len(returned) = Len(Slice(kept, top_k))
            /\ Cardinality(Identities(returned)) = Len(returned)
            /\ Identities(returned) \subseteq Identities(kept)
            /\ \A i \in 1..Len(returned) :
                 returned[i].score = ScoreOf(Identity(returned[i]))
            /\ \A id \in Identities(kept) \ Identities(returned) :
                 \A i \in 1..Len(returned) : ~ScoreLess(returned[i].score, ScoreOf(id))

\* C3 witness: some paper embedding failed, another succeeded, and the
\* call returned a ranked list
C3_Witness ==
  /\ Done /\ outcome = "returned" /\ returned # <<>>
  /\ \E i \in 1..Len(paper_embeddings) : paper_embeddings[i].status = "exception"
  /\ Cardinality(OkIndices) >= 2
  /\ Len(returned) < Cardinality(OkIndices)

\* C4: when step 1 collects no candidate, the call returns the empty list
\* and has made no embedding call, no cache access and no ranker call.
C4_ShortCircuit ==
  (pc \notin {"idle", "fetch"} /\ all_papers = <<>>) =>
    /\ pc = "done" /\ outcome = "returned" /\ returned = <<>>
    /\ embed_calls = 0 /\ cache_accesses = 0 /\ rank_calls = <<>>

\* C4 witness: both providers were called, one failed and the other
\* returned nothing
C4_Witness ==
  /\ Done /\ all_papers = <<>> /\ Raised("arxiv") /\ Listed("semantic_scholar", 0)

\* C5: every returned paper has a string summary, a non-null title and a
\* list of authors.
C5_DefaultingInvariant ==
  \A i \in 1..Len(returned) :
    /\ returned[i].summary \notin {Missing, None}
    /\ returned[i].title \notin {Missing, None}
    /\ returned[i].authors.isList

\* C5 witness: a provider delivered a paper with a null title and the call
\* returned it
C5_Witness ==
  /\ Done /\ outcome = "returned"
  /\ \E i \in 1..Len(unique_papers), j \in 1..Len(returned) :
       /\ unique_papers[i].title = None
       /\ Identity(returned[j]) = Identity(unique_papers[i])


\* the identity fields as the claims speak of them: an absent, null or
\* empty field is the one value "empty"
IdValue(v) == IF Truthy(v) THEN v ELSE ""
LinkValue(l) == IF TruthyLink(l) THEN l ELSE EmptyLink
TitleValue(v) == IF v = Missing THEN "" ELSE v

\* positions of s whose key occurs at no earlier position
FirstOccurrences(s) ==
  { i \in 1..Len(s) : \A j \in 1..(i - 1) : DedupKey(s[j]) # DedupKey(s[i]) }

\* C6: the deduplication step keeps exactly the first paper of each
\* identity key, drops every later paper with that key (whichever provider
\* it is from), and keeps the input order.
C6_FirstOccurrenceWins ==
  dd_pc \in {"once", "twice"} => dd_once = Pick(dd_in, FirstOccurrences(dd_in), 1)

\* C6 witness: two papers are kept in input order and a later paper, from
\* the other provider, is dropped as a duplicate of the first
C6_Witness ==
  /\ dd_pc = "once" /\ Len(dd_in) = 3 /\ Len(dd_once) = 2
  /\ dd_once = <<dd_in[1], dd_in[2]>>
  /\ dd_in[3] # dd_in[1] /\ dd_in[3].source # dd_in[1].source
  /\ DedupKey(dd_in[3]) = DedupKey(dd_in[1])

\* the tier of the priority scheme a paper's key comes from
Tier(paper) ==
  IF IdValue(paper.paperId) # "" THEN "paper_id"
  ELSE IF LinkValue(paper.link) # EmptyLink THEN "link"
  ELSE "title"

SameIdentity(a, b) ==
  /\ Tier(a) = Tier(b)
  /\ Tier(a) = "paper_id" => IdValue(a.paperId) = IdValue(b.paperId)
  /\ Tier(a) = "link" => LinkValue(a.link) = LinkValue(b.link)
  /\ Tier(a) = "title" => TitleValue(a.title) = TitleValue(b.title)

Survivors(P(_)) == { i \in 1..Len(dd_once) : P(dd_once[i]) }

\* C7: the identity key is the paper_id when present and non-empty, else
\* the link when present and non-empty, else the hash of the title: two
\* papers get the same key exactly when they agree on the first of these
\* that they have; so of the candidates with one non-empty paper_id only
\* one survives whatever their links, and of the candidates without
\* paper_id and with one non-empty link only one survives.
C7_KeyPriority ==
  dd_pc \in {"once", "twice"} =>
    /\ \A i, j \in 1..Len(dd_in) :
         (DedupKey(dd_in[i]) = DedupKey(dd_in[j])) <=> SameIdentity(dd_in[i], dd_in[j])
    /\ \A i \in 1..Len(dd_in) :
         LET p == dd_in[i]
             SameId(q) == IdValue(q.paperId) = IdValue(p.paperId)
             SameLinkNoId(q) == IdValue(q.paperId) = "" /\ LinkValue(q.link) = LinkValue(p.link)
         IN /\ Tier(p) = "paper_id" => Cardinality(Survivors(SameId)) = 1
            /\ Tier(p) = "link" => Cardinality(Survivors(SameLinkNoId)) = 1

\* C7 witness: two candidates share a paper_id and differ in link, a third
\* has no paper_id and no link and is keyed by its title
C7_Witness ==
  /\ dd_pc = "once" /\ Len(dd_in) = 3
  /\ Tier(dd_in[1]) = "paper_id" /\ IdValue(dd_in[2].paperId) = IdValue(dd_in[1].paperId)
  /\ dd_in[1].link # dd_in[2].link
  /\ Tier(dd_in[3]) = "title"
  /\ Len(dd_once) = 2

\* C8: deduplicating the output of the deduplication step changes nothing.
C8_DedupIdempotent == dd_pc = "twice" => dd_twice = dd_once

\* C8 witness: the first pass dropped a duplicate and kept two papers, and
\* the second pass has run
C8_Witness ==
  /\ dd_pc = "twice" /\ Len(dd_in) = 3 /\ Len(dd_once) = 2 /\ dd_twice # <<>>

\* C9: no two entries of a returned list have the same link and the same
\* paper_id (empty counting as a value).
C9_UniqueInResult ==
  \A i, j \in 1..Len(returned) :
    (/\ LinkValue(returned[i].link) = LinkValue(returned[j].link)
     /\ IdValue(returned[i].paperId) = IdValue(returned[j].paperId)) => i = j

\* C9 witness: two candidates of one call had the same link and no
\* paper_id, and the call returned two or more papers
C9_Witness ==
  /\ Done /\ outcome = "returned" /\ Len(returned) >= 2
  /\ \E i, j \in 1..Len(all_papers) :
       /\ i < j
       /\ LinkValue(all_papers[i].link) = LinkValue(all_papers[j].link)
       /\ IdValue(all_papers[i].paperId) = "" /\ IdValue(all_papers[j].paperId) = ""

\* C10: for papers and vectors of equal length and any integer top_k,
\* rank_by_similarity returns exactly min(top_k, len(papers)) entries.
C10_TopKContract ==
  (rk_pc = "returned" /\ Len(rk_papers) = Len(rk_vecs)) =>
    Len(rk_out) = Min(rk_top_k, Len(rk_papers))


\* what the slice of line 244 yields: for papers and vectors of equal
\* length, min(top_k, len(papers)) entries when top_k >= 0, and
\* max(0, len(papers) + top_k) entries when top_k < 0.
C10_TopKSlice ==
  (rk_pc = "returned" /\ Len(rk_papers) = Len(rk_vecs)) =>
    Len(rk_out) = IF rk_top_k >= 0 THEN Min(rk_top_k, Len(rk_papers))
                  ELSE Max(0, Len(rk_papers) + rk_top_k)

\* more candidates than a positive top_k, and top_k returned
C10_Witness ==
  /\ rk_pc = "returned" /\ rk_top_k >= 1 /\ Len(rk_papers) > rk_top_k
  /\ Len(rk_out) = rk_top_k


(***************************************************************************)
(* Properties of the ranker (SpecRank).                                    *)
(***************************************************************************)
\* the position in the input list of a ranked paper (RankPaper(i) carries
\* its position in its link)
InputIndex(paper) == CHOOSE i \in 1..Len(rk_papers) : rk_papers[i].link = paper.link

ScoreOne == [sgn |-> 1, num |-> 1, den |-> 1]

\* C11: the list returned by rank_by_similarity is ordered by score
\* descending and papers with equal scores keep their input order; and
\* rank([0,1], [A,B], [[0,1],[1,0]], top_k=10) is A with score 1.0 followed
\* by B with score 0.0.
C11_SortedStable ==
  rk_pc = "returned" =>
    /\ \A i, j \in 1..Len(rk_out) :
         i < j => /\ ~ScoreLess(rk_out[i].score, rk_out[j].score)
                  /\ rk_out[i].score = rk_out[j].score
                       => InputIndex(rk_out[i]) < InputIndex(rk_out[j])
    /\ (/\ rk_query = <<0, 1>> /\ Len(rk_papers) = 2
        /\ rk_vecs = << <<0, 1>>, <<1, 0>> >> /\ rk_top_k = 10)
         => rk_out = << [RankPaper(1) EXCEPT !.score = ScoreOne],
                        [RankPaper(2) EXCEPT !.score = ZeroScore] >>

\* C11 witness: three papers were ranked, the last input paper came out
\* first, and the two others, of equal score, follow in their input order
C11_Witness ==
  /\ rk_pc = "returned" /\ Len(rk_out) = 3
  /\ InputIndex(rk_out[1]) = 3
  /\ rk_out[2].score = rk_out[3].score
  /\ InputIndex(rk_out[2]) = 1 /\ InputIndex(rk_out[3]) = 2

\* C12: whenever len(papers) # len(paper_embeddings), rank_by_similarity
\* raises, with no paper scored and no result; the error leaves the ranker.
C12_LengthPrecondition ==
  (rk_pc # "start" /\ Len(rk_papers) # Len(rk_vecs)) =>
    /\ rk_pc = "raised"
    /\ rk_scored = 0
    /\ rk_out = <<>>

\* C12 witness: two papers and one vector of the query's dimension, so that
\* only the length check can have raised
C12_Witness ==
  /\ rk_pc = "raised" /\ Len(rk_papers) = 2 /\ Len(rk_vecs) = 1
  /\ Len(rk_vecs[1]) = Len(rk_query)

\* C13: rank_by_similarity leaves the papers it is given as they were (no
\* score field appears on them); each returned paper is the input paper
\* with score set.
C13_InputsNotMutated ==
  rk_pc = "returned" =>
    /\ rk_papers = [i \in 1..Len(rk_papers) |-> RankPaper(i)]
    /\ \A i \in 1..Len(rk_papers) : rk_papers[i].score = NoScore
    /\ \A j \in 1..Len(rk_out) :
         /\ rk_out[j].score # NoScore
         /\ rk_out[j] = [RankPaper(InputIndex(rk_out[j])) EXCEPT !.score = rk_out[j].score]

\* C13 witness: two papers were scored and returned
C13_Witness ==
  /\ rk_pc = "returned" /\ Len(rk_papers) = 2 /\ Len(rk_out) = 2
  /\ rk_scored = 2

\* C14: a returned paper's score is 0.0 when its vector or the query vector
\* has zero norm, and dot(a,b)/(||a||*||b||) otherwise; zero vectors never
\* make the ranker raise.
C14_ZeroNormScoresZero ==
  /\ (/\ rk_pc # "start" /\ Len(rk_papers) = Len(rk_vecs)
      /\ \A i \in 1..Len(rk_vecs) : Len(rk_vecs[i]) = Len(rk_query))
       => rk_pc = "returned"
  /\ rk_pc = "returned" =>
       \A j \in 1..Len(rk_out) :
         LET v == rk_vecs[InputIndex(rk_out[j])]
             s == rk_out[j].score
             d == Dot(rk_query, v)
             sq1 == Dot(rk_query, rk_query)
             sq2 == Dot(v, v)
         IN IF sq1 = 0 \/ sq2 = 0 THEN s = ZeroScore
            ELSE /\ s.den > 0 /\ s.sgn = Sign(d)
                 /\ s.num * sq1 * sq2 = s.den * d * d

\* C14 witness: the query is not zero, one returned paper has the all-zero
\* vector and another one a score that is not 0.0
C14_Witness ==
  /\ rk_pc = "returned" /\ Dot(rk_query, rk_query) # 0
  /\ \E i, j \in 1..Len(rk_out) :
       /\ Dot(rk_vecs[InputIndex(rk_out[i])], rk_vecs[InputIndex(rk_out[i])]) = 0
       /\ rk_out[i].score = ZeroScore
       /\ rk_out[j].score # ZeroScore


(***************************************************************************)
(* get_or_compute_embedding called on its own, call after call, in one     *)
(* process that starts with an empty cache directory (the routes call it   *)
(* for the papers of successive requests).  unique_papers holds the papers *)
(* of the successive calls, which may repeat, and paper_embeddings what    *)
(* each call returned or raised.                                           *)
(***************************************************************************)
CacheIds == {Missing, "", "p1"}
CacheLinks == {EmptyLink,
               Url("http:", "arxiv.org", <<"abs", "1706.1">>),
               Url("http:", "arxiv.org", <<"pdf", "1706.1">>),
               Url("https:", "example.org", <<"p", "1">>)}

CachePaper(id, link, title, summary) ==
  [Candidate(id, link, title) EXCEPT !.summary = summary]

CachePapers ==
  { CachePaper(id, link, "Attention", "transformers") : id \in CacheIds, link \in CacheLinks }
    \cup { CachePaper("p1", EmptyLink, "Graphs", ""),
           CachePaper(Missing, Url("http:", "arxiv.org", <<"abs", "1706.1">>), "Graphs", "") }

CallsPending(papers) ==
  /\ pc = "embed_papers"
  /\ query = "" /\ top_k = 0
  /\ use_arxiv = TRUE /\ use_semantic_scholar = TRUE
  /\ max_results_per_source = 0
  /\ results = <<>> /\ all_papers = <<>>
  /\ unique_papers = papers
  /\ paper_embeddings = [i \in 1..Len(papers) |-> PendingEmbedding]
  /\ query_embedding = <<>>
  /\ outcome = "none" /\ returned = <<>>
  /\ embed_calls = 0 /\ cache_accesses = 0 /\ rank_calls = <<>>
  /\ cache_errors = <<>> /\ backends_used = {}

InitCache ==
  /\ ProcInit /\ DedupIdle /\ RankIdle /\ RaceIdle
  /\ use_sbert \in BOOLEAN
  /\ \E papers \in SeqsUpTo(CachePapers, MaxCalls) : CallsPending(papers)

NextCache ==
  \/ \E i \in 1..Len(paper_embeddings) : GetOrComputeHit(i)
  \/ \E i \in 1..Len(paper_embeddings) : \E readFails \in BOOLEAN, writeFails \in BOOLEAN :
       GetOrComputeMiss(i, readFails, writeFails)
  \/ \E i \in 1..Len(paper_embeddings) : \E readFails \in BOOLEAN :
       GetOrComputeRaises(i, readFails)

SpecCache == InitCache /\ [][NextCache]_vars

(***************************************************************************)
(* The same calls made by successive processes that share the cache        *)
(* directory: a restart imports the module again (the local model loads or *)
(* not) and the interpreter draws a new string-hash salt.                  *)
(***************************************************************************)
ProcessSeeds == {"s1", "s2"}

InitProcs ==
  /\ SENTENCE_BERT_AVAILABLE \in BOOLEAN
  /\ hashSeed \in ProcessSeeds
  /\ cache = EmptyDir /\ earlier = 0
  /\ DedupIdle /\ RankIdle /\ RaceIdle
  /\ use_sbert \in BOOLEAN
  /\ \E papers \in SeqsUpTo(CachePapers, MaxCalls) : CallsPending(papers)

Restart ==
  /\ pc = "embed_papers"
  /\ SENTENCE_BERT_AVAILABLE' \in BOOLEAN
  /\ hashSeed' \in ProcessSeeds
  /\ UNCHANGED <<cache, earlier, paramVars, callVars, obsVars, ddVars, rkVars, raceVars>>

NextProcs == NextCache \/ Restart

SpecProcs == InitProcs /\ [][NextProcs]_vars


(***************************************************************************)
(* Properties of the embedding cache (SpecCache, SpecProcs).               *)
(***************************************************************************)
SeqRange(s) == { s[k] : k \in DOMAIN s }

\* the call for the paper at position i has ended
Called(i) == i \in 1..Len(paper_embeddings) /\ paper_embeddings[i].status # "pending"
Returned(i) == i \in 1..Len(paper_embeddings) /\ paper_embeddings[i].status = "ok"

\* the vector the backend of the calls computes for a paper: from the
\* summary when it is not empty, from the title otherwise
ComputedVector(paper) ==
  LET text == IF paper.summary \notin {Missing, None, ""} THEN paper.summary
              ELSE IF paper.title = Missing THEN "" ELSE paper.title
  IN IF use_sbert /\ SENTENCE_BERT_AVAILABLE THEN get_embedding_sbert(text)
     ELSE get_embedding_openai(text)

\* C15: two calls in sequence for papers with the same non-empty paper_id,
\* the first of which finds no cache entry: when the first call returned
\* and no cache read or write failed, the backend has been invoked exactly
\* once, and the second call returned the vector the first call returned.
C15_SecondCallServedFromCache ==
  (/\ Len(unique_papers) >= 2
   /\ Truthy(unique_papers[1].paperId)
   /\ unique_papers[2].paperId = unique_papers[1].paperId
   /\ Returned(1) /\ Called(2) /\ ~Called(3)
   /\ cache_errors = <<>>)
    => /\ embed_calls = 1
       /\ Returned(2)
       /\ paper_embeddings[2].vec = paper_embeddings[1].vec

\* C15 witness: the two calls were made for two papers with the same
\* paper_id and different texts, and the second one returned
C15_Witness ==
  /\ Len(unique_papers) >= 2
  /\ unique_papers[1].paperId = "p1" /\ unique_papers[2].paperId = "p1"
  /\ unique_papers[1].summary # unique_papers[2].summary
  /\ Returned(1) /\ Returned(2) /\ ~Called(3)
  /\ embed_calls = 1 /\ cache_errors = <<>>

\* the step by which the call for the paper at position i returns
Returns(i) ==
  /\ i \in 1..Len(paper_embeddings)
  /\ paper_embeddings[i].status = "pending"
  /\ paper_embeddings'[i].status = "ok"

\* the cache errors printed in the step
NewErrors == SubSeq(cache_errors', Len(cache_errors) + 1, Len(cache_errors'))

Ends(i) ==
  /\ i \in 1..Len(paper_embeddings)
  /\ paper_embeddings[i].status = "pending"
  /\ paper_embeddings'[i].status # "pending"

\* C17: a call during which a cache read or write fails goes on to the
\* backend; it returns the computed vector whenever the backend answers, and
\* a failed write never keeps the computed vector from being returned.
C17_CacheFailureIsMiss ==
  [][\A i \in 1..Len(paper_embeddings) :
       (Ends(i) /\ NewErrors # <<>>) =>
         /\ embed_calls' = embed_calls + 1
         /\ "cache" \in SeqRange(NewErrors) => paper_embeddings'[i].status = "ok"
         /\ paper_embeddings'[i].status = "ok" =>
              paper_embeddings'[i].vec = ComputedVector(unique_papers[i])
    ]_vars

\* C17 witness: in the second call for a paper the read of the entry failed
\* and the write failed too, and the call returned the computed vector
C17_Witness ==
  /\ Len(unique_papers) >= 2 /\ Returned(1) /\ Returned(2)
  /\ cache_errors = <<"load", "cache">>
  /\ embed_calls = 2
  /\ paper_embeddings[2].vec = ComputedVector(unique_papers[2])


\* the tier of the cache key scheme a paper falls in
CacheTier(paper) ==
  IF IdValue(paper.paperId) # "" THEN "paper_id"
  ELSE IF LinkValue(paper.link) # EmptyLink
  THEN IF paper.link[3] = "arxiv.org" THEN "arxiv" ELSE "link"
  ELSE "title"

\* the arXiv ID of an arXiv URL: what follows the last "/"
ArxivId(link) == link[Len(link)]

SameCacheIdentity(a, b) ==
  /\ CacheTier(a) = CacheTier(b)
  /\ CacheTier(a) = "paper_id" => IdValue(a.paperId) = IdValue(b.paperId)
  /\ CacheTier(a) = "arxiv" => ArxivId(a.link) = ArxivId(b.link)
  /\ CacheTier(a) = "link" => a.link = b.link
  /\ CacheTier(a) = "title" => TitleValue(a.title) = TitleValue(b.title)

\* C18: the cache key follows the priority paper_id, arXiv ID of an arXiv
\* link, hash of the link, hash of the title: two papers have the same key
\* exactly when they fall in the same tier and agree on that tier's field,
\* the first two tiers giving paper_<paper_id> and arxiv_<arXiv ID>; and
\* the read and the write derive the same key: once a call for a paper has
\* returned, a later call of the process for a paper of the same identity
\* is served from the entry (no cache read or write failing).
C18_CacheKeyPriority ==
  /\ \A i, j \in 1..Len(unique_papers) :
       (get_paper_cache_key(unique_papers[i]) = get_paper_cache_key(unique_papers[j]))
         <=> SameCacheIdentity(unique_papers[i], unique_papers[j])
  /\ \A i \in 1..Len(unique_papers) :
       LET paper == unique_papers[i]
       IN /\ CacheTier(paper) = "paper_id"
               => get_paper_cache_key(paper) = "paper_" \o paper.paperId
          /\ CacheTier(paper) = "arxiv"
               => get_paper_cache_key(paper) = "arxiv_" \o ArxivId(paper.link)
  /\ \A i, j \in 1..Len(unique_papers) :
       (/\ i < j /\ Returned(i) /\ Called(j) /\ cache_errors = <<>>
        /\ SameCacheIdentity(unique_papers[i], unique_papers[j]))
         => /\ get_paper_cache_key(unique_papers[j]) \in DOMAIN cache
            /\ Returned(j)
            /\ paper_embeddings[j].vec = paper_embeddings[i].vec

\* C18 witness: two papers without paper_id whose arXiv links differ and
\* carry the same arXiv ID; the second call was served from the entry the
\* first call wrote
C18_Witness ==
  /\ Len(unique_papers) >= 2 /\ Returned(1) /\ Returned(2)
  /\ CacheTier(unique_papers[1]) = "arxiv" /\ CacheTier(unique_papers[2]) = "arxiv"
  /\ unique_papers[1].link # unique_papers[2].link
  /\ embed_calls = 1 /\ cache_errors = <<>>
  /\ DOMAIN cache = {"arxiv_1706.1"}

\* C19: a key derived from given identity fields is the same in whichever
\* process it is derived: every entry of the shared cache directory lies
\* under the key the running process derives from the entry's paper_id,
\* link and title.
C19_KeyDeterministic ==
  \A k \in DOMAIN cache : get_paper_cache_key(cache[k].paper) = k

\* C20: every embedding computation of the process used one backend, the
\* local model if it initialized and the remote API otherwise.
C20_BackendOncePerProcess ==
  \A u \in backends_used :
    u[2] = IF SENTENCE_BERT_AVAILABLE THEN "sbert" ELSE "openai"

\* C20 as amended: the local model is used only when it initialized, and
\* every embedding computation of one unified_semantic_search call (the
\* query and the papers) uses the backend the call's use_sbert selects: the
\* local model when use_sbert is true and the model initialized, the remote
\* API otherwise.
C20_BackendPerCall ==
  \A u \in backends_used :
    /\ u[2] = "sbert" => SENTENCE_BERT_AVAILABLE
    /\ u[1] = "current" =>
         u[2] = IF use_sbert /\ SENTENCE_BERT_AVAILABLE THEN "sbert" ELSE "openai"

\* C20 witness: the local model initialized and served an earlier request,
\* and the running call, made with use_sbert false, had the query and a
\* paper embedded by the remote API
C20_Witness ==
  /\ SENTENCE_BERT_AVAILABLE /\ ~use_sbert
  /\ backends_used = {<<"earlier", "sbert">>, <<"current", "openai">>}
  /\ embed_calls >= 2


(***************************************************************************)
(* Properties of the source adapters, the fan-outs and the stages of a     *)
(* retrieval.                                                              *)
(***************************************************************************)
\* the provider tasks of the running call that have delivered a list
Delivering == { i \in 1..Len(results) : results[i].status = "list" }

\* C21: every paper a source adapter (search_arxiv, search_semantic_scholar)
\* hands out has the field defaults applied: its abstract is neither absent
\* nor null ("No abstract available" stands for it), its title is neither
\* absent nor null ("No title"), its authors are a list, and its date is
\* neither absent nor null ("Unknown").
C21_AdapterDefaults ==
  \A i \in Delivering : \A k \in 1..Len(results[i].papers) :
    LET paper == results[i].papers[k]
    IN /\ paper.summary \notin {Missing, None}
       /\ paper.title \notin {Missing, None}
       /\ paper.authors.isList
       /\ paper.published \notin {Missing, None, ""}


\* the list a provider's task delivered, [] if it raised or was not launched
ListOf(provider) ==
  IF \E i \in Delivering : results[i].provider = provider
  THEN results[CHOOSE i \in Delivering : results[i].provider = provider].papers
  ELSE <<>>

\* the vectors get_or_compute_embedding can return for a paper: the entry
\* stored under the paper's key, or the vector computed from its text
OwnVectors(paper) ==
  {get_embedding(EmbeddingText(paper), use_sbert)}
    \cup (IF CacheHit(cache, paper) THEN {get_cached_embedding(cache, paper)} ELSE {})

\* C22: the results of both fan-outs are matched by dispatch position,
\* whichever task finishes first: the candidate list is arXiv's papers
\* followed by Semantic Scholar's, there is one embedding outcome per
\* deduplicated paper, the outcome at index i is the vector of the paper at
\* index i, and the ranker receives each paper with the vector at its index.
C22_MatchedByPosition ==
  /\ pc \notin {"idle", "fetch"} =>
       all_papers = ListOf("arxiv") \o ListOf("semantic_scholar")
  /\ paper_embeddings # <<>> => Len(paper_embeddings) = Len(unique_papers)
  /\ \A i \in OkIndices : paper_embeddings[i].vec \in OwnVectors(unique_papers[i])
  /\ \A c \in 1..Len(rank_calls) :
       /\ Len(rank_calls[c].papers) = Cardinality(OkIndices)
       /\ \A k \in 1..Len(rank_calls[c].papers) :
            \E i \in OkIndices :
              /\ Cardinality({ j \in OkIndices : j <= i }) = k
              /\ rank_calls[c].papers[k] = unique_papers[i]
              /\ rank_calls[c].embeddings[k] = paper_embeddings[i].vec

\* C22 witness: both providers delivered papers, a paper embedding failed
\* before one that succeeded, and the ranker was called
C22_Witness ==
  /\ Done /\ rank_calls # <<>>
  /\ ListOf("arxiv") # <<>> /\ ListOf("semantic_scholar") # <<>>
  /\ \E i \in OkIndices : \E j \in 1..(i - 1) : paper_embeddings[j].status = "exception"
  /\ \E i, j \in OkIndices : paper_embeddings[i].vec # paper_embeddings[j].vec


\* C23: the stages of one retrieval are strictly ordered: no embedding call
\* (query or paper) is made while a launched provider call is pending, the
\* paper embeddings are those of the deduplicated candidates, the ranker is
\* invoked only when no launched paper embedding is pending, and what is
\* returned is the normalisation of what the ranker returned.
C23_StagesOrdered ==
  /\ (pc \notin {"idle", "fetch"} \/ embed_calls > 0 \/ cache_accesses > 0)
       => \A i \in 1..Len(results) : results[i].status # "pending"
  /\ paper_embeddings # <<>> =>
       /\ unique_papers = Deduplicate(all_papers)
       /\ Len(paper_embeddings) = Len(unique_papers)
       /\ query_embedding # <<>>
  /\ (rank_calls # <<>> \/ (Done /\ query_embedding # <<>>)) =>
       /\ paper_embeddings # <<>>
       /\ \A i \in 1..Len(paper_embeddings) : paper_embeddings[i].status # "pending"
  /\ returned # <<>> =>
       /\ Len(rank_calls) = 1
       /\ returned = MapSeq(Normalise,
                       rank_by_similarity(query_embedding, rank_calls[1].papers,
                                          rank_calls[1].embeddings, top_k))

\* C23 witness: a retrieval with both providers went through every stage,
\* a duplicate was dropped, and the normalisation changed a ranked paper
C23_Witness ==
  /\ Done /\ returned # <<>>
  /\ Len(results) = 2 /\ Len(unique_papers) < Len(all_papers)
  /\ Len(paper_embeddings) >= 2
  /\ returned # rank_by_similarity(query_embedding, rank_calls[1].papers,
                                   rank_calls[1].embeddings, top_k)


(***************************************************************************)
(* get_or_compute_embedding called by processes that share CACHE_DIR       *)
(* (workers of one server, or the server and a script).  Inside one event  *)
(* loop a call never suspends, so two calls interleave only across         *)
(* processes; there every file operation is a step of its own.             *)
(***************************************************************************)
MaxProcs == 2

RacePapers ==
  { CachePaper("p1", EmptyLink, "Attention", "transformers"),
    CachePaper("p1", EmptyLink, "Graphs", ""),
    CachePaper(Missing, Url("http:", "arxiv.org", <<"abs", "1706.1">>),
               "Attention", "transformers") }

\* a call about to start
RaceCall(paper, sbert) ==
  [pc |-> "read", paper |-> paper, sbert |-> sbert, status |-> "pending",
   vec |-> <<>>, computed |-> FALSE]

\* cache_file right after open(cache_file, 'wb'): it exists and is empty
Truncated ==
  [embedding |-> <<>>, paper |-> [title |-> "", link |-> EmptyLink, paperId |-> ""]]

InitRace ==
  /\ ProcInit /\ CallIdle /\ DedupIdle /\ RankIdle
  /\ rc_call \in [1..MaxProcs -> { RaceCall(paper, sbert) :
                                    paper \in RacePapers, sbert \in BOOLEAN }]
  /\ rc_writes = <<>>

RaceFrame ==
  UNCHANGED <<SENTENCE_BERT_AVAILABLE, hashSeed, earlier, paramVars, callVars,
              rank_calls, ddVars, rkVars>>

RaceAt(p, at) == rc_call # <<>> /\ p \in DOMAIN rc_call /\ rc_call[p].pc = at

\* mutant: no integrity failure on a file that is not written yet, the
\* reader takes what the file holds so far
RaceReadPartial(p) ==
  /\ RaceAt(p, "read")
  /\ LET key == get_paper_cache_key(rc_call[p].paper)
     IN rc_call' = [rc_call EXCEPT ![p] =
                      IF key \in DOMAIN cache
                      THEN [@ EXCEPT !.pc = "done", !.status = "ok",
                                     !.vec = cache[key].embedding]
                      ELSE [@ EXCEPT !.pc = "compute"]]
  /\ cache_accesses' = cache_accesses + 1
  /\ UNCHANGED <<cache, embed_calls, cache_errors, backends_used, rc_writes>>
  /\ RaceFrame

\* get_cached_embedding: exists(), open, pickle.load; a file that holds no
\* complete pickle makes pickle.load raise, which is printed and is a miss
RaceRead(p) ==
  /\ RaceAt(p, "read")
  /\ LET key == get_paper_cache_key(rc_call[p].paper)
         exists == key \in DOMAIN cache
         loads == exists /\ cache[key] # Truncated
     IN /\ rc_call' = [rc_call EXCEPT ![p] =
                         IF loads
                         THEN [@ EXCEPT !.pc = "done", !.status = "ok",
                                        !.vec = cache[key].embedding]
                         ELSE [@ EXCEPT !.pc = "compute"]]
        /\ cache_errors' = cache_errors
                             \o (IF exists /\ ~loads THEN <<"load">> ELSE <<>>)
  /\ cache_accesses' = cache_accesses + 1
  /\ UNCHANGED <<cache, embed_calls, backends_used, rc_writes>>
  /\ RaceFrame

\* get_embedding(text, use_sbert) answers
RaceCompute(p) ==
  /\ RaceAt(p, "compute")
  /\ rc_call' = [rc_call EXCEPT ![p] =
                   [@ EXCEPT !.pc = "open", !.computed = TRUE,
                             !.vec = get_embedding(EmbeddingText(rc_call[p].paper),
                                                   rc_call[p].sbert)]]
  /\ embed_calls' = embed_calls + 1
  /\ backends_used' = backends_used \cup {<<"current", Backend(rc_call[p].sbert)>>}
  /\ UNCHANGED <<cache, cache_accesses, cache_errors, rc_writes>>
  /\ RaceFrame

\* get_embedding raises: the call ends with the backend's error
RaceComputeRaises(p) ==
  /\ RaceAt(p, "compute")
  /\ rc_call' = [rc_call EXCEPT ![p] = [@ EXCEPT !.pc = "done", !.status = "exception"]]
  /\ embed_calls' = embed_calls + 1
  /\ backends_used' = backends_used \cup {<<"current", Backend(rc_call[p].sbert)>>}
  /\ UNCHANGED <<cache, cache_accesses, cache_errors, rc_writes>>
  /\ RaceFrame

\* cache_embedding: open(cache_file, 'wb') creates or truncates the file;
\* when it fails the error is printed and the call returns its vector
RaceOpen(p, writeFails) ==
  /\ RaceAt(p, "open")
  /\ LET key == get_paper_cache_key(rc_call[p].paper)
     IN IF writeFails
        THEN /\ rc_call' = [rc_call EXCEPT ![p] = [@ EXCEPT !.pc = "done", !.status = "ok"]]
             /\ cache_errors' = Append(cache_errors, "cache")
             /\ UNCHANGED cache
        ELSE /\ rc_call' = [rc_call EXCEPT ![p] = [@ EXCEPT !.pc = "dump"]]
             /\ cache' = [k \in DOMAIN cache \cup {key} |->
                            IF k = key THEN Truncated ELSE cache[k]]
             /\ UNCHANGED cache_errors
  /\ cache_accesses' = cache_accesses + 1
  /\ UNCHANGED <<embed_calls, backends_used, rc_writes>>
  /\ RaceFrame


\* cache_embedding: pickle.dump writes the entry from the start of the file
\* and the file is closed; when the write fails the file holds no complete
\* pickle, the error is printed, and the call returns its vector
RaceDump(p, writeFails) ==
  /\ RaceAt(p, "dump")
  /\ LET key == get_paper_cache_key(rc_call[p].paper)
     IN IF writeFails
        THEN /\ cache' = [cache EXCEPT ![key] = Truncated]
             /\ cache_errors' = Append(cache_errors, "cache")
             /\ UNCHANGED rc_writes
        ELSE /\ cache' = cache_embedding(cache, rc_call[p].paper, rc_call[p].vec)
             /\ rc_writes' = Append(rc_writes, p)
             /\ UNCHANGED cache_errors
  /\ rc_call' = [rc_call EXCEPT ![p] = [@ EXCEPT !.pc = "done", !.status = "ok"]]
  /\ cache_accesses' = cache_accesses + 1
  /\ UNCHANGED <<embed_calls, backends_used>>
  /\ RaceFrame

NextRace ==
  \/ \E p \in 1..MaxProcs : RaceRead(p)
  \/ \E p \in 1..MaxProcs : RaceCompute(p)
  \/ \E p \in 1..MaxProcs : RaceComputeRaises(p)
  \/ \E p \in 1..MaxProcs : \E writeFails \in BOOLEAN : RaceOpen(p, writeFails)
  \/ \E p \in 1..MaxProcs : \E writeFails \in BOOLEAN : RaceDump(p, writeFails)

SpecRace == InitRace /\ [][NextRace]_vars

\* the key and the vector of a process's call
RaceKey(p) == get_paper_cache_key(rc_call[p].paper)
RaceVector(p) ==
  get_embedding(EmbeddingText(rc_call[p].paper), rc_call[p].sbert)
\* the process whose dump on the key ended last
RECURSIVE LastWriter(_, _)
LastWriter(key, n) ==
  IF n = 0 THEN 0
  ELSE IF RaceKey(rc_writes[n]) = key THEN rc_writes[n] ELSE LastWriter(key, n - 1)
\* both calls missed, computed and wrote the same key
BothWrote(p, q) ==
  /\ p # q /\ RaceKey(p) = RaceKey(q)
  /\ rc_call[p].computed /\ rc_call[q].computed
  /\ p \in SeqRange(rc_writes) /\ q \in SeqRange(rc_writes)

C25_EntriesNeverChange ==
  [][ /\ DOMAIN cache \subseteq DOMAIN cache'
      /\ \A key \in DOMAIN cache :
           cache[key] # Truncated => cache'[key].embedding = cache[key].embedding
      /\ cache' # cache =>
           \E p \in DOMAIN rc_call :
             rc_call[p].computed /\ rc_call'[p].pc # rc_call[p].pc ]_vars


(***************************************************************************)
(* Termination of a retrieval.  Every launched call ends (the service      *)
(* answers or the client raises), and the event loop resumes a coroutine   *)
(* whose awaited tasks are all over.                                       *)
(***************************************************************************)
ProviderEnds == ArxivReturns \/ ArxivRaises \/ SemanticScholarReturns
QueryEmbeddingEnds == EmbedQueryReturns \/ EmbedQueryRaises
PaperEmbeddingEnds ==
  \E i \in 1..Len(paper_embeddings) :
    \/ GetOrComputeHit(i)
    \/ \E readFails \in BOOLEAN, writeFails \in BOOLEAN :
         GetOrComputeMiss(i, readFails, writeFails)
    \/ \E readFails \in BOOLEAN : GetOrComputeRaises(i, readFails)

\* a step of the running retrieval
CallStep ==
  \/ ProviderEnds
  \/ Collect
  \/ QueryEmbeddingEnds
  \/ PaperEmbeddingEnds
  \/ RankAndReturn

\* one retrieval over an empty cache
NextLive ==
  \/ \E q \in Queries, k \in TopKs, sbert \in BOOLEAN, arxiv \in BOOLEAN, s2 \in BOOLEAN :
       StartRequest(q, k, sbert, arxiv, s2)
  \/ CallStep

\* RankAndReturn without its results: the step after the gather of line 87
RankDue ==
  /\ pc = "embed_papers"
  /\ \A i \in 1..Len(paper_embeddings) : paper_embeddings[i].status # "pending"
  /\ pc' = "done"

\* every launched call ends, and the coroutine is resumed when the tasks it
\* awaits are over
SpecLive ==
  /\ Init /\ [][NextLive]_vars
  /\ WF_vars(ProviderEnds) /\ WF_vars(Collect)
  /\ WF_vars(QueryEmbeddingEnds) /\ WF_vars(PaperEmbeddingEnds)
  /\ WF_pc(RankDue)

\* the call is running
Running == pc \notin {"idle", "done"}

\* C26: when every launched provider call and every embedding call
\* completes, by returning or by raising, the retrieval eventually returns;
\* and it does not return while a launched provider call is pending (there
\* is no timeout and no cancellation).
C26_EventuallyReturns ==
  /\ Running ~> (Done /\ outcome = "returned")
  /\ [](outcome = "returned" => \A i \in 1..Len(results) : results[i].status # "pending")

\* the retrieval eventually ends, by returning or by raising, and does not
\* end while a launched provider call is pending
C26_EventuallyEnds ==
  /\ Running ~> Done
  /\ [](Done => \A i \in 1..Len(results) : results[i].status # "pending")


(***************************************************************************)
(* The two keys of a paper: deduplication of a candidate list whose papers *)
(* carry arXiv links of both identifier schemes (1706.1, and the older     *)
(* archive/number), the identity key and the cache key side by side.       *)
(***************************************************************************)
MaxKeyLen == 2

KeyLinks == {Url("http:", "arxiv.org", <<"abs", "1706.1">>),
             Url("http:", "arxiv.org", <<"abs", "math", "9901001">>),
             Url("http:", "arxiv.org", <<"abs", "hep-th", "9901001">>),
             Url("https:", "www.semanticscholar.org", <<"paper", "p1">>)}

KeyPapers ==
  { Candidate(id, link, title) :
      id \in {Missing, "p1", "p2"}, link \in KeyLinks, title \in {"Attention"} }

InitKeys ==
  /\ ProcInit /\ CallIdle /\ RankIdle /\ RaceIdle
  /\ dd_pc = "start"
  /\ dd_in \in SeqsUpTo(KeyPapers, MaxKeyLen)
  /\ dd_once = <<>> /\ dd_twice = <<>>

SpecKeys == InitKeys /\ [][NextDedup]_vars

\* C27: two papers that the deduplication step keeps apart (different
\* identity keys) never have the same embedding cache key, so neither can
\* be served the vector stored for the other.
C27_DistinctPapersDistinctKeys ==
  dd_pc # "start" =>
    \A i, j \in 1..Len(dd_once) :
      (i # j /\ DedupKey(dd_once[i]) # DedupKey(dd_once[j])) =>
        get_paper_cache_key(dd_once[i]) # get_paper_cache_key(dd_once[j])

\* the backend a vector comes from: the local model's vectors and the
\* remote model's vectors differ in length
ProducedBy(vec) ==
  IF Len(vec) = Len(get_embedding_sbert("")) THEN "sbert" ELSE "openai"

\* C28: every paper vector passed to rank_by_similarity was produced by the
\* backend that produced the request's query vector; a cache hit never
\* supplies a vector that the other backend computed in an earlier call.
C28_RankedVectorsOfQueryBackend ==
  \A c \in 1..Len(rank_calls) :
    \A k \in 1..Len(rank_calls[c].embeddings) :
      ProducedBy(rank_calls[c].embeddings[k]) = ProducedBy(query_embedding)


\* C29: whenever the orchestrator invokes rank_by_similarity, the papers
\* and the embeddings it passes are non-empty lists of equal length, the
\* k-th embedding being the vector obtained for the k-th paper; so when
\* the ranker raises it is never for its length check.
C29_RankerArguments ==
  \A c \in 1..Len(rank_calls) :
    LET papers == rank_calls[c].papers
        embeddings == rank_calls[c].embeddings
    IN /\ papers # <<>> /\ embeddings # <<>>
       /\ Len(papers) = Len(embeddings)
       /\ \A k \in 1..Len(papers) :
            \E i \in OkIndices :
              papers[k] = unique_papers[i] /\ embeddings[k] = paper_embeddings[i].vec
       /\ outcome = "raised" =>
            \E k \in 1..Len(embeddings) : CosineRaises(query_embedding, embeddings[k])

\* C29 witness: of three deduplicated papers one embedding failed, and the
\* ranker was invoked with the two others and their vectors
C29_Witness ==
  /\ Done /\ Len(rank_calls) = 1
  /\ Len(unique_papers) = 3 /\ Cardinality(OkIndices) = 2
  /\ Len(rank_calls[1].papers) = 2 /\ Len(rank_calls[1].embeddings) = 2
  /\ outcome = "returned"


\* C30: no two papers of the returned list have the same non-empty link,
\* whether or not they carry a paper_id.
C30_NoSharedLink ==
  (Done /\ outcome = "returned") =>
    \A i, j \in 1..Len(returned) :
      (i # j /\ TruthyLink(returned[i].link)) => returned[i].link # returned[j].link

====
